---- MODULE Spec2Model ----
(***************************************************************************)
(* Model of freeipaconsistencycheck: the per-server collector              *)
(* (server/freeipaserver.py, FreeIPAServer), the cross-server evaluator    *)
(* (main.py, ConsistencyChecker) and the orchestrator (main.py,            *)
(* Application and main).                                                  *)
(***************************************************************************)
EXTENDS Integers, Sequences, FiniteSets, TLC

(***************************************************************************)
(* Bounds of the model.                                                    *)
(***************************************************************************)
\* longest list of per-server values handed to is_consistent
MaxVals == 2
\* most servers handed to a ConsistencyChecker
MaxServers == 3
\* most configured hosts of a run
MaxHosts == 2
\* most queries of a run that the environment answers with an error
MaxFaults == 1

(***************************************************************************)
(* Python values.  A value carries its type, so that "0" (text) and 0      *)
(* (number) are different values, and None is a value of its own.          *)
(***************************************************************************)
PyNone == [t |-> "none", v |-> 0]
PyInt(n) == [t |-> "int", v |-> n]
PyStr(s) == [t |-> "str", v |-> s]
PyBool(b) == [t |-> "bool", v |-> b]
\* a list of texts, a value that is not a primitive
PyList(items) == [t |-> "list", v |-> items]

IsNone(a) == a.t = "none"
IsNum(a) == a.t \in {"int", "bool"}
\* the number a Python int or bool stands for (True is 1, False is 0)
Num(a) == IF a.t = "bool" THEN (IF a.v THEN 1 ELSE 0) ELSE a.v

\* Python's a == b on None, int, bool and str
PyEq(a, b) ==
    IF IsNum(a) /\ IsNum(b) THEN Num(a) = Num(b)
    ELSE a.t = b.t /\ (a.t = "none" \/ a.v = b.v)

\* list.count(x)
PyCount(lst, x) == Cardinality({i \in 1..Len(lst) : PyEq(lst[i], x)})

\* x in list
PyIn(x, lst) == \E i \in 1..Len(lst) : PyEq(lst[i], x)

(***************************************************************************)
(* The metric keys, in the order of ConsistencyChecker.checks.             *)
(***************************************************************************)
Checks == << "users", "susers", "pusers", "hosts", "services", "ugroups",
             "hgroups", "ngroups", "hbac", "sudo", "zones", "certs",
             "conflicts", "ghosts", "bind", "msdcs", "replicas" >>

Metrics == {Checks[i] : i \in 1..Len(Checks)}

(***************************************************************************)
(* FreeIPAServer: the attributes set before the connection is attempted.   *)
(***************************************************************************)
InitialAttrs == [m \in Metrics |-> IF m = "hbac" THEN PyInt(0) ELSE PyNone]

(***************************************************************************)
(* Text operations of Python used by the collector.                        *)
(***************************************************************************)
\* sub in s
Contains(s, sub) ==
    \E i \in 0..(Len(s) - Len(sub)) : SubSeq(s, i + 1, i + Len(sub)) = sub

\* s.replace(old, new), old not empty
RECURSIVE Replace(_, _, _)
Replace(s, old, new) ==
    IF Len(s) < Len(old) THEN s
    ELSE IF SubSeq(s, 1, Len(old)) = old
         THEN new \o Replace(SubSeq(s, Len(old) + 1, Len(s)), old, new)
         ELSE SubSeq(s, 1, 1) \o Replace(SubSeq(s, 2, Len(s)), old, new)

\* s.partition(sep)[0], sep a single character
RECURSIVE PartitionHead(_, _)
PartitionHead(s, sep) ==
    IF Len(s) = 0 \/ SubSeq(s, 1, 1) = sep THEN ""
    ELSE SubSeq(s, 1, 1) \o PartitionHead(SubSeq(s, 2, Len(s)), sep)

\* s.strip(chars), chars a set of single characters
RECURSIVE LStrip(_, _)
LStrip(s, chars) ==
    IF Len(s) > 0 /\ SubSeq(s, 1, 1) \in chars
    THEN LStrip(SubSeq(s, 2, Len(s)), chars) ELSE s

RECURSIVE RStrip(_, _)
RStrip(s, chars) ==
    IF Len(s) > 0 /\ SubSeq(s, Len(s), Len(s)) \in chars
    THEN RStrip(SubSeq(s, 1, Len(s) - 1), chars) ELSE s

Strip(s, chars) == RStrip(LStrip(s, chars), chars)

\* sep.join(lines)
RECURSIVE Join(_, _)
Join(lines, sep) ==
    IF Len(lines) = 0 THEN ""
    ELSE IF Len(lines) = 1 THEN lines[1]
    ELSE lines[1] \o sep \o Join(Tail(lines), sep)

(***************************************************************************)
(* A call either returns a value or raises an exception.                   *)
(***************************************************************************)
Ret(v) == [raised |-> FALSE, exc |-> "", val |-> v]
Raise(e) == [raised |-> TRUE, exc |-> e, val |-> PyNone]

(***************************************************************************)
(* The directory servers under audit (the environment of the collector).   *)
(* An entry is an attribute map, attribute name to list of values; the     *)
(* values are the UTF-8 texts of the bytes the server sends.               *)
(***************************************************************************)
\* Config.domain
Domain == "example.com"

\* the i-th configured host name
HostName(i) == "ipa" \o SubSeq("123456789", i, i) \o "." \o Domain

\* an attribute value as python-ldap hands it over (bytes), and a Python str
B(text) == [ty |-> "bytes", s |-> text]
S(text) == [ty |-> "str", s |-> text]

Entry(attrs) == [dn |-> "dn", attrs |-> attrs]
NoAttrs == [a \in {} |-> <<>>]
Entries(n) == [i \in 1..n |-> Entry(NoAttrs)]

\* what conn.search_s does: it returns entries or raises an LDAP exception
Found(entries) == [kind |-> "results", entries |-> entries]
LdapError(name) == [kind |-> name, entries |-> <<>>]
LdapFaults == {"NO_SUCH_OBJECT", "SERVER_DOWN", "REFERRAL", "TIMEOUT"}

\* what dns.resolver.resolve does: it returns records or raises
DnsAnswers(records) == [kind |-> "answers", records |-> records]
DnsError(name) == [kind |-> name, records |-> <<>>]
DnsFaults == {"NXDOMAIN", "NoNameservers", "DNSException"}

\* Three directory contents: 1 a replica in sync, 2 a replica that has
\* diverged, 3 a server of another domain.
Profiles == {1, 2, 3}

Subordinates(text) == << Entry("numSubordinates" :> << B(text) >>) >>

Agreement(host, status) ==
    Entry(("nsDS5ReplicaHost" :> << B(host) >>)
          @@ ("nsds5replicaLastUpdateStatus" :> << B(status) >>))

Directory(p, host) ==
    [q \in {"fqdn", "context"} \cup (Metrics \ {"msdcs"}) |->
       CASE q = "fqdn" ->
              << Entry("nsslapd-localhost" :> << B(host) >>) >>
         [] q = "context" ->
              << Entry("nsslapd-defaultnamingcontext" :>
                         << B(IF p = 3 THEN "dc=wrong,dc=com"
                                       ELSE "dc=example,dc=com") >>) >>
         [] q = "users" -> Subordinates(IF p = 2 THEN "101" ELSE "100")
         [] q = "susers" -> << Entry(NoAttrs) >>
         [] q = "pusers" -> Subordinates("5")
         [] q = "hgroups" -> Subordinates(IF p = 2 THEN "4" ELSE "5")
         [] q = "hosts" -> Entries(3)
         [] q = "services" -> Entries(2)
         [] q = "ugroups" -> Entries(2)
         [] q = "ngroups" -> Entries(1)
         [] q = "hbac" -> Entries(IF p = 2 THEN 1 ELSE 2)
         [] q = "sudo" -> Entries(1)
         [] q = "zones" -> Entries(1)
         [] q = "certs" -> Entries(2)
         [] q = "conflicts" -> Entries(IF p = 2 THEN 1 ELSE 0)
         [] q = "ghosts" ->
              << Entry("nscpentrywsi" :>
                         (IF p = 2
                          THEN << B("replica ldap://ipa1"), B("replica gone") >>
                          ELSE << B("replica ldap://ipa1") >>)) >>
         [] q = "bind" ->
              << Entry("nsslapd-allow-anonymous-access" :>
                         << B(IF p = 2 THEN "off" ELSE "on") >>) >>
         [] q = "replicas" ->
              << Agreement("ipa9." \o Domain,
                           IF p = 2 THEN "Error (5) update failed"
                                    ELSE "Error (0) Replica acquired") >> ]

\* the SRV records of the AD-trust site name
DnsRecords(p, host) ==
    IF p = 2 THEN << "0 100 88 ipa9." \o Domain \o "." >>
             ELSE << "0 100 88 " \o host \o "." >>

(***************************************************************************)
(* FreeIPAServer: connection, search and the decoding of the replies.      *)
(***************************************************************************)
ConnOutcomes ==
    {"ok", "SERVER_DOWN", "NO_SUCH_OBJECT", "INVALID_CREDENTIALS", "TIMEOUT"}

\* _get_conn: TRUE for a connection, FALSE for None
get_conn(outcome) ==
    IF outcome = "ok" THEN Ret(TRUE)
    ELSE IF outcome \in {"SERVER_DOWN", "NO_SUCH_OBJECT", "INVALID_CREDENTIALS"}
         THEN Ret(FALSE)
         ELSE Raise(outcome)

\* what _search returns: a list of entries, or False
SearchList(entries) == [is_list |-> TRUE, entries |-> entries]
SearchFalse == [is_list |-> FALSE, entries |-> <<>>]

\* "not results or not isinstance(results, list)"
Falsy(results) == ~results.is_list \/ Len(results.entries) = 0

\* _search: conn is "self._conn is not None", fqdn is self._fqdn ("" while
\* the attribute is not set yet), reply is what search_s does
search(conn, fqdn, reply) ==
    IF ~conn THEN Ret(SearchFalse)
    ELSE IF reply.kind = "results" THEN Ret(SearchList(reply.entries))
    ELSE IF reply.kind \in {"NO_SUCH_OBJECT", "SERVER_DOWN"} THEN Ret(SearchFalse)
    ELSE IF reply.kind = "REFERRAL"
         THEN (IF fqdn = "" THEN Raise("AttributeError")
                            ELSE Raise("LDAPReferralError"))
         ELSE Raise(reply.kind)

\* attrs.get(name, default)
AttrGet(attrs, name, default) ==
    IF name \in DOMAIN attrs THEN attrs[name] ELSE default

\* _safe_decode of one attribute value: bytes are decoded, a str is kept
safe_decode(value) == value.s

\* str(value): the repr of bytes, the text of a str
str_of(value) ==
    IF value.ty = "bytes" THEN "b'" \o value.s \o "'" ELSE value.s

\* _get_fqdn, from the outcome of its _search
get_fqdn(o) ==
    IF o.raised THEN o
    ELSE IF Falsy(o.val) THEN Ret("unknown")
    ELSE LET attrs == o.val.entries[1].attrs
             fqdn_bytes == AttrGet(attrs, "nsslapd-localhost", << B("unknown") >>)[1]
         IN Ret(IF fqdn_bytes.ty = "bytes" THEN fqdn_bytes.s ELSE "unknown")

\* _get_context, from the outcome of its _search
get_context(o) ==
    IF o.raised THEN o
    ELSE IF Falsy(o.val) THEN Ret("unknown")
    ELSE LET attrs == o.val.entries[1].attrs
             context_bytes ==
                 AttrGet(attrs, "nsslapd-defaultnamingcontext", << B("unknown") >>)[1]
         IN Ret(IF context_bytes.ty = "bytes" THEN context_bytes.s ELSE "unknown")

\* self._base_dn
base_dn(domain) == "dc=" \o Replace(domain, ".", ",dc=")

\* _count_users that falls back on the number 0
count_users_number(o) ==
    IF o.raised THEN o
    ELSE IF Falsy(o.val) THEN Ret(PyInt(0))
    ELSE LET attrs == o.val.entries[1].attrs
         IN IF "numSubordinates" \in DOMAIN attrs
            THEN Ret(PyStr(safe_decode(attrs["numSubordinates"][1])))
            ELSE Ret(PyInt(0))

\* _count_users and _count_hostgroups
count_users(o) ==
    IF o.raised THEN o
    ELSE IF Falsy(o.val) THEN Ret(PyStr("0"))
    ELSE LET attrs == o.val.entries[1].attrs
         IN Ret(PyStr(safe_decode(AttrGet(attrs, "numSubordinates", << S("0") >>)[1])))

count_hostgroups(o) ==
    IF o.raised THEN o
    ELSE IF Falsy(o.val) THEN Ret(PyStr("0"))
    ELSE LET attrs == o.val.entries[1].attrs
         IN Ret(PyStr(safe_decode(AttrGet(attrs, "numSubordinates", << S("0") >>)[1])))

\* a counter of entries that only tells whether there are any
count_entries_any(o) ==
    IF o.raised THEN o
    ELSE IF Falsy(o.val) THEN Ret(PyInt(0))
    ELSE Ret(PyInt(1))

\* _count_groups, _count_hosts, _count_services, _count_netgroups,
\* _count_hbac_rules, _count_sudo_rules, _count_dns_zones,
\* _count_certificates, _count_ldap_conflicts
count_entries(o) ==
    IF o.raised THEN o
    ELSE IF Falsy(o.val) THEN Ret(PyInt(0))
    ELSE Ret(PyInt(Len(o.val.entries)))

\* _ghost_replicas that counts every value naming a replica
ghost_replicas_any(o) ==
    IF o.raised THEN o
    ELSE IF o.val.is_list /\ Len(o.val.entries) > 0
    THEN LET attrs == o.val.entries[1].attrs
         IN IF "nscpentrywsi" \in DOMAIN attrs
            THEN LET vals == attrs["nscpentrywsi"]
                 IN Ret(PyInt(Cardinality(
                        {i \in 1..Len(vals) :
                            Contains(str_of(vals[i]), "replica ")})))
            ELSE Ret(PyInt(0))
    ELSE Ret(PyInt(0))

\* _ghost_replicas
ghost_replicas(o) ==
    IF o.raised THEN o
    ELSE IF o.val.is_list /\ Len(o.val.entries) > 0
    THEN LET attrs == o.val.entries[1].attrs
         IN IF "nscpentrywsi" \in DOMAIN attrs
            THEN LET vals == attrs["nscpentrywsi"]
                 IN Ret(PyInt(Cardinality(
                        {i \in 1..Len(vals) :
                            /\ Contains(str_of(vals[i]), "replica ")
                            /\ ~Contains(str_of(vals[i]), "ldap")})))
            ELSE Ret(PyInt(0))
    ELSE Ret(PyInt(0))

\* str.upper(), letter by letter
LowerLetters == "abcdefghijklmnopqrstuvwxyz"
UpperLetters == "ABCDEFGHIJKLMNOPQRSTUVWXYZ"

UpperChar(c) ==
    IF \E i \in 1..Len(LowerLetters) : SubSeq(LowerLetters, i, i) = c
    THEN LET i == CHOOSE j \in 1..Len(LowerLetters) : SubSeq(LowerLetters, j, j) = c
         IN SubSeq(UpperLetters, i, i)
    ELSE c

RECURSIVE Upper(_)
Upper(state) ==
    IF Len(state) = 0 THEN ""
    ELSE UpperChar(SubSeq(state, 1, 1)) \o Upper(SubSeq(state, 2, Len(state)))

\* _anon_bind
anon_bind(o) ==
    IF o.raised THEN o
    ELSE IF Falsy(o.val) THEN Ret(PyStr("ERROR"))
    ELSE LET attrs == o.val.entries[1].attrs
         IN IF "nsslapd-allow-anonymous-access" \notin DOMAIN attrs
            THEN Ret(PyStr("ERROR"))
            ELSE LET state == safe_decode(attrs["nsslapd-allow-anonymous-access"][1])
                 IN IF state \in {"on", "off", "rootdse"}
                    THEN Ret(PyStr(Upper(state)))
                    ELSE Ret(PyStr("ERROR"))

\* _ms_adtrust that lets NXDOMAIN escape
ms_adtrust_nxdomain(fqdn, dns) ==
    IF dns.kind = "answers"
    THEN Ret(PyBool(\E i \in 1..Len(dns.records) : Contains(dns.records[i], fqdn)))
    ELSE IF dns.kind \in {"NoNameservers", "DNSException"}
         THEN Ret(PyBool(FALSE))
         ELSE Raise(dns.kind)

\* _ms_adtrust: fqdn is self._fqdn, dns is what dns.resolver.resolve does
ms_adtrust(fqdn, dns) ==
    IF dns.kind = "answers"
    THEN Ret(PyBool(\E i \in 1..Len(dns.records) : Contains(dns.records[i], fqdn)))
    ELSE IF dns.kind \in {"NXDOMAIN", "NoNameservers", "DNSException"}
         THEN Ret(PyBool(FALSE))
         ELSE Raise(dns.kind)

\* a status code that keeps the parentheses around it
normalise_status_unstripped(text) ==
    PartitionHead(Replace(text, "Error ", ""), " ")

\* the status code of a last-update status text
normalise_status(text) ==
    Strip(PartitionHead(Replace(text, "Error ", ""), " "), {"(", ")"})

\* the loop of _replication_agreements over the entries found
RECURSIVE AgreementLoop(_, _, _, _)
AgreementLoop(entries, domain, msg, healthy) ==
    IF Len(entries) = 0 THEN [msg |-> msg, healthy |-> healthy]
    ELSE LET attrs == entries[1].attrs
         IN IF \/ "nsDS5ReplicaHost" \notin DOMAIN attrs
               \/ "nsds5replicaLastUpdateStatus" \notin DOMAIN attrs
            THEN AgreementLoop(Tail(entries), domain, msg, healthy)
            ELSE LET host == Replace(safe_decode(attrs["nsDS5ReplicaHost"][1]),
                                     "." \o domain, "")
                     status == normalise_status(safe_decode(
                                   attrs["nsds5replicaLastUpdateStatus"][1]))
                 IN AgreementLoop(Tail(entries), domain,
                                  Append(msg, host \o " " \o status),
                                  healthy /\ status \in {"0", "18"})

\* _replication_agreements: the pair (status text, healthy)
replication_agreements(o, domain) ==
    IF o.raised THEN o
    ELSE IF Falsy(o.val)
    THEN Ret([text |-> PyStr("No replication agreements found"), healthy |-> FALSE])
    ELSE LET r == AgreementLoop(o.val.entries, domain, <<>>, TRUE)
         IN Ret([text |-> PyStr(IF Len(r.msg) > 0 THEN Join(r.msg, "\n")
                                ELSE "No replication agreements found"),
                 healthy |-> r.healthy])

(***************************************************************************)
(* ConsistencyChecker.                                                     *)
(***************************************************************************)
\* ConsistencyChecker.__init__ that takes any mapping of servers
checker_init_any(servers) == Ret(servers)

\* ConsistencyChecker.__init__: an empty mapping of servers is refused
checker_init(servers) ==
    IF Len(servers) = 0 THEN Raise("ValueError") ELSE Ret(servers)

\* the display names of self.checks, in the order of Checks
DisplayNames == << "Active Users", "Stage Users", "Preserved Users", "Hosts",
                   "Services", "User Groups", "Host Groups", "Netgroups",
                   "HBAC Rules", "SUDO Rules", "DNS Zones", "Certificates",
                   "LDAP Conflicts", "Ghost Replicas", "Anonymous BIND",
                   "Microsoft ADTrust", "Replication Status" >>

\* [getattr(server, name) for server in self.servers.values()]
AttrList(servers, name) == [i \in 1..Len(servers) |-> servers[i].attr[name]]

\* the rule of conflicts and ghosts: every server holds 0
zero_rule(servers, name) ==
    LET vals == AttrList(servers, name)
    IN /\ PyCount(vals, vals[1]) = Len(vals)
       /\ PyEq(vals[1], PyInt(0))

\* the rule of replicas: every server has healthy agreements
healthy_rule(servers) ==
    LET healths == [i \in 1..Len(servers) |-> servers[i].healthy_agreements]
    IN /\ Cardinality({i \in 1..Len(healths) : healths[i] = healths[1]})
            = Len(healths)
       /\ healths[1]

\* the default rule: the values are identical and none is None
default_rule(check_results) ==
    /\ PyCount(check_results, check_results[1]) = Len(check_results)
    /\ ~PyIn(PyNone, check_results)

\* is_consistent with the None test of the default rule left out
is_consistent_none_ok(servers, check, check_results) ==
    IF Len(check_results) = 0 THEN FALSE
    ELSE IF check = "conflicts" THEN zero_rule(servers, "conflicts")
    ELSE IF check = "ghosts" THEN zero_rule(servers, "ghosts")
    ELSE IF check = "replicas" THEN healthy_rule(servers)
    ELSE PyCount(check_results, check_results[1]) = Len(check_results)

\* is_consistent with replicas compared by their status texts
is_consistent_replica_text(servers, check, check_results) ==
    IF Len(check_results) = 0 THEN FALSE
    ELSE IF check = "conflicts" THEN zero_rule(servers, "conflicts")
    ELSE IF check = "ghosts" THEN zero_rule(servers, "ghosts")
    ELSE default_rule(check_results)

\* is_consistent with an empty list taken as consistent
is_consistent_empty_ok(servers, check, check_results) ==
    IF Len(check_results) = 0 THEN TRUE
    ELSE IF check = "conflicts" THEN zero_rule(servers, "conflicts")
    ELSE IF check = "ghosts" THEN zero_rule(servers, "ghosts")
    ELSE IF check = "replicas" THEN healthy_rule(servers)
    ELSE default_rule(check_results)

\* is_consistent(check, check_results) of a checker holding servers
is_consistent(servers, check, check_results) ==
    IF Len(check_results) = 0 THEN FALSE
    ELSE IF check = "conflicts" THEN zero_rule(servers, "conflicts")
    ELSE IF check = "ghosts" THEN zero_rule(servers, "ghosts")
    ELSE IF check = "replicas" THEN healthy_rule(servers)
    ELSE default_rule(check_results)

\* the STATE column of print_table, one entry per check
table_states(servers) ==
    [i \in 1..Len(Checks) |->
        IF is_consistent(servers, Checks[i], AttrList(servers, Checks[i]))
        THEN "OK" ELSE "FAIL"]

\* get_structured_data before its loops
EmptyData ==
    [timestamp |-> PyNone,
     domain |-> PyNone,
     servers |-> <<>>,
     checks |-> <<>>,
     summary |-> [total_checks |-> Len(Checks),
                  consistent_checks |-> 0,
                  inconsistent_checks |-> 0]]

\* the server information of get_structured_data
ServerInfo(servers) ==
    [i \in 1..Len(servers) |->
        [hostname |-> servers[i].host,
         hostname_short |-> servers[i].hostname_short]]

\* str(value) of a list of texts
str_list(items) ==
    "[" \o Join([i \in 1..Len(items) |-> "'" \o items[i] \o "'"], ", ") \o "]"

\* the value of a server as it is put into the structured data, left as it is
serialise_raw(value) == value

\* the value of a server as it is put into the structured data: a str, int,
\* float, bool or None is kept, anything else is converted to its string form
serialise(value) ==
    IF value.t \in {"str", "int", "float", "bool", "none"} THEN value
    ELSE PyStr(str_list(value.v))

\* the values of one check, keyed by host
CheckValues(servers, check_results) ==
    [h \in {servers[i].host : i \in 1..Len(servers)} |->
        serialise(check_results[CHOOSE i \in 1..Len(servers) : servers[i].host = h])]

\* the loop over the checks that leaves the inconsistent ones uncounted
RECURSIVE check_loop_uncounted(_, _, _)
check_loop_uncounted(servers, i, data) ==
    IF i > Len(Checks) THEN data
    ELSE LET check_name == Checks[i]
             check_results == AttrList(servers, check_name)
             consistent == is_consistent(servers, check_name, check_results)
             check_data == [name |-> check_name,
                            display_name |-> DisplayNames[i],
                            state |-> IF consistent THEN "OK" ELSE "FAIL",
                            is_consistent |-> consistent,
                            values |-> CheckValues(servers, check_results)]
         IN check_loop_uncounted(servers, i + 1,
               [data EXCEPT
                  !.summary.consistent_checks = IF consistent THEN @ + 1 ELSE @,
                  !.checks = Append(@, check_data)])

\* the loop of get_structured_data over the checks, from the i-th on
RECURSIVE check_loop(_, _, _)
check_loop(servers, i, data) ==
    IF i > Len(Checks) THEN data
    ELSE LET check_name == Checks[i]
             check_results == AttrList(servers, check_name)
             consistent == is_consistent(servers, check_name, check_results)
             check_data == [name |-> check_name,
                            display_name |-> DisplayNames[i],
                            state |-> IF consistent THEN "OK" ELSE "FAIL",
                            is_consistent |-> consistent,
                            values |-> CheckValues(servers, check_results)]
         IN check_loop(servers, i + 1,
               [data EXCEPT
                  !.summary.consistent_checks = IF consistent THEN @ + 1 ELSE @,
                  !.summary.inconsistent_checks = IF consistent THEN @ ELSE @ + 1,
                  !.checks = Append(@, check_data)])

\* get_structured_data
get_structured_data(servers) ==
    check_loop(servers, 1, [EmptyData EXCEPT !.servers = ServerInfo(servers)])

(***************************************************************************)
(* State.                                                                  *)
(***************************************************************************)
VARIABLES
    pc,                 \* position of the program
    hosts,              \* Config.hosts
    idx,                \* position of the loop over the hosts
    srv,                \* the FreeIPAServer under construction
    k,                  \* position of the collection in the constructor
    dir,                \* directory content of the server being queried
    asked,              \* how each query of the constructor was answered
    faults,             \* errors the environment has answered with so far
    mismatched,         \* hosts that reported another naming context
    servers,            \* Application.servers, in insertion order
    connection_errors,  \* Application.__init__'s connection_errors
    exit_code,          \* what main returns, -1 while it runs
    table,              \* the STATE column rendered by run, <<>> before
    attempts,           \* hosts a FreeIPAServer was constructed for, in order
    outcome,            \* what _search did for each query of the constructor
    init_exc,           \* the exception that left Application.__init__, "" for none
    run_exc,            \* the exception caught by Application.run, "" for none
    report,             \* the state of each check in the data printed by run, <<>> before
    ic_servers,         \* the servers handed to ConsistencyChecker
    ic_exc,             \* the exception its constructor raised, "" for none
    ic_check,           \* the arguments of a direct call of is_consistent
    ic_results,
    ic_ret,             \* and what it returned
    ic_data,            \* what get_structured_data returned
    d_fn,               \* the collector applied to a search outcome
    d_in,               \* the outcome of its _search
    d_out,              \* and what the collector did
    debug,              \* args.debug
    loader,             \* the LoadingIndicator: its running flag and its thread
    anim,               \* the animation thread: its position and what it wrote
    stopped             \* whether a call of LoadingIndicator.stop has returned

vars == << pc, hosts, idx, srv, k, dir, asked, faults, mismatched, servers,
           connection_errors, exit_code, table, attempts, outcome,
           init_exc, run_exc, report,
           ic_servers, ic_exc, ic_check, ic_results, ic_ret, ic_data,
           d_fn, d_in, d_out, debug, loader, anim, stopped >>

exitvars == << init_exc, run_exc, report >>

appvars == << hosts, idx, srv, k, dir, asked, faults, mismatched, servers,
              connection_errors, exit_code, table, attempts, outcome, exitvars >>

icvars == << ic_servers, ic_exc, ic_check, ic_results, ic_ret, ic_data >>

decvars == << d_fn, d_in, d_out >>

loadvars == << debug, loader, anim, stopped >>

(***************************************************************************)
(* FreeIPAServer.__init__, step by step.                                   *)
(***************************************************************************)
\* the order of collection in the constructor
CollectOrder == << "users", "susers", "pusers", "hosts", "services", "ugroups",
                   "hgroups", "ngroups", "hbac", "sudo", "zones", "certs",
                   "conflicts", "ghosts", "bind", "msdcs", "replicas" >>

QueryNames == {"fqdn", "context"} \cup Metrics

\* the object as the constructor has it before it connects
NewServer(host) ==
    [host |-> host,
     hostname_short |-> Replace(host, "." \o Domain, ""),
     attr |-> InitialAttrs,
     healthy_agreements |-> FALSE,
     conn |-> FALSE,
     open |-> FALSE,
     fqdn |-> ""]

NoServer == NewServer("")
Unasked == [q \in QueryNames |-> "unasked"]

\* what a call of _search did: it returned a list, returned False, or
\* raised the exception named
SearchOutcome(o) ==
    IF o.raised THEN o.exc ELSE IF o.val.is_list THEN "list" ELSE "False"

NoOutcome == [q \in QueryNames |-> ""]

\* no metric collected inside a try/except of its own
ProtectedNone(m) == FALSE

\* metrics collected inside a try/except of their own
Protected(m) == m \in {"hbac", "sudo"}

\* the answer to the query q of a host with directory content p when
\* nothing fails
NormalReplyOf(p, host, q) ==
    IF q = "msdcs" THEN DnsAnswers(DnsRecords(p, host))
                   ELSE Found(Directory(p, host)[q])

\* what the environment may answer to the query q of the current server
Replies(q) ==
    {NormalReplyOf(dir, srv.host, q)}
    \cup (IF faults < MaxFaults
          THEN (IF q = "msdcs" THEN {DnsError(f) : f \in DnsFaults}
                               ELSE {LdapError(f) : f \in LdapFaults})
          ELSE {})

IsFault(reply) == reply.kind \notin {"results", "answers"}

\* how a query was answered, as recorded in asked
Answer(reply) ==
    CASE reply.kind \in {"results", "answers"} -> "ok"
      [] reply.kind \in {"NO_SUCH_OBJECT", "SERVER_DOWN"} -> "notfound"
      [] reply.kind = "REFERRAL" -> "referral"
      [] reply.kind \in DnsFaults -> "dnsfail"
      [] OTHER -> "error"

\* the collector of metric m applied to the reply of its query
Collector(m, server, reply) ==
    CASE m \in {"users", "susers", "pusers"} ->
            count_users(search(server.conn, server.fqdn, reply))
      [] m = "hgroups" ->
            count_hostgroups(search(server.conn, server.fqdn, reply))
      [] m \in {"hosts", "services", "ugroups", "ngroups", "hbac", "sudo",
                "zones", "certs", "conflicts"} ->
            count_entries(search(server.conn, server.fqdn, reply))
      [] m = "ghosts" -> ghost_replicas(search(server.conn, server.fqdn, reply))
      [] m = "bind" -> anon_bind(search(server.conn, server.fqdn, reply))
      [] m = "msdcs" -> ms_adtrust(server.fqdn, reply)
      [] m = "replicas" ->
            replication_agreements(search(server.conn, server.fqdn, reply), Domain)

\* the assignment of a collected value to the attributes of the object
Assign(server, m, val) ==
    IF m = "replicas"
    THEN [server EXCEPT !.attr[m] = val.text, !.healthy_agreements = val.healthy]
    ELSE [server EXCEPT !.attr[m] = val]

\* Application.__init__, the loop body up to the connection of the
\* constructor: the attributes are initialised and _get_conn is called; a
\* None connection makes the constructor return at once, an exception that
\* _get_conn does not catch leaves the constructor
Connect ==
    /\ pc = "loop"
    /\ idx <= Len(hosts)
    /\ \E bound \in ConnOutcomes, p \in Profiles :
          LET c == get_conn(bound)
          IN /\ (bound # "ok" => p = 1)
             /\ srv' = [NewServer(hosts[idx]) EXCEPT
                           !.conn = (~c.raised /\ c.val),
                           !.open = (~c.raised /\ c.val)]
             /\ dir' = p
             /\ pc' = IF c.raised THEN "raised"
                      ELSE IF c.val THEN "fqdn" ELSE "built"
    /\ attempts' = Append(attempts, hosts[idx])
    /\ asked' = Unasked
    /\ outcome' = NoOutcome
    /\ k' = 0
    /\ UNCHANGED << hosts, idx, faults, mismatched, servers, connection_errors, exit_code,
                    table, exitvars, icvars,
                    decvars, loadvars >>

\* self._fqdn = self._get_fqdn() and the short host name; an exception is
\* caught by the except clause that ends the constructor
ResolveFqdn ==
    /\ pc = "fqdn"
    /\ \E reply \in Replies("fqdn") :
          LET o == get_fqdn(search(srv.conn, srv.fqdn, reply))
          IN /\ asked' = [asked EXCEPT !["fqdn"] = Answer(reply)]
             /\ outcome' = [outcome EXCEPT !["fqdn"] =
                                SearchOutcome(search(srv.conn, srv.fqdn, reply))]
             /\ faults' = IF IsFault(reply) THEN faults + 1 ELSE faults
             /\ IF o.raised
                THEN /\ pc' = "built"
                     /\ srv' = srv
                ELSE /\ pc' = "context"
                     /\ srv' = [srv EXCEPT
                                  !.fqdn = o.val,
                                  !.hostname_short = Replace(o.val, "." \o Domain, "")]
    /\ UNCHANGED << hosts, idx, k, dir, mismatched, servers, connection_errors,
                    exit_code, table, attempts, exitvars, icvars,
                    decvars, loadvars >>

\* a comparison of the naming context that accepts any context
context_any(domain, context) == TRUE

\* "self._base_dn != context" is false
context_matches(domain, context) == base_dn(domain) = context

\* the naming context is read and compared with the base DN of the domain;
\* the ValueError of a mismatch is caught by the except clause that ends the
\* constructor, like any other exception
ValidateContext ==
    /\ pc = "context"
    /\ \E reply \in Replies("context") :
          LET o == get_context(search(srv.conn, srv.fqdn, reply))
          IN /\ asked' = [asked EXCEPT !["context"] = Answer(reply)]
             /\ outcome' = [outcome EXCEPT !["context"] =
                                SearchOutcome(search(srv.conn, srv.fqdn, reply))]
             /\ faults' = IF IsFault(reply) THEN faults + 1 ELSE faults
             /\ IF o.raised \/ ~context_matches(Domain, o.val)
                THEN /\ pc' = "built"
                     /\ k' = k
                ELSE /\ pc' = "collect"
                     /\ k' = 1
             /\ mismatched' =
                   IF reply.kind = "results" /\ ~o.raised /\ base_dn(Domain) # o.val
                   THEN mismatched \cup {srv.host} ELSE mismatched
    /\ UNCHANGED << hosts, idx, srv, dir, servers, connection_errors, exit_code,
                    table, attempts, exitvars, icvars,
                    decvars, loadvars >>

\* one line of the collection: the metric is queried, decoded and assigned;
\* hbac and sudo are set to 0 when their collector raises, an exception of
\* any other collector ends the constructor
Collect ==
    /\ pc = "collect"
    /\ LET m == CollectOrder[k]
       IN \E reply \in Replies(m) :
             LET o == Collector(m, srv, reply)
             IN /\ asked' = [asked EXCEPT ![m] = Answer(reply)]
                /\ outcome' = IF m = "msdcs" THEN outcome
                              ELSE [outcome EXCEPT ![m] =
                                      SearchOutcome(search(srv.conn, srv.fqdn, reply))]
                /\ faults' = IF IsFault(reply) THEN faults + 1 ELSE faults
                /\ IF o.raised /\ ~Protected(m)
                   THEN /\ srv' = srv
                        /\ pc' = "built"
                        /\ k' = k
                   ELSE /\ srv' = IF o.raised THEN Assign(srv, m, PyInt(0))
                                              ELSE Assign(srv, m, o.val)
                        /\ pc' = IF k = Len(CollectOrder) THEN "built" ELSE "collect"
                        /\ k' = IF k = Len(CollectOrder) THEN k ELSE k + 1
    /\ UNCHANGED << hosts, idx, dir, mismatched, servers, connection_errors,
                    exit_code, table, attempts, exitvars, icvars,
                    decvars, loadvars >>

(***************************************************************************)
(* Application.__init__ and main.                                          *)
(***************************************************************************)
\* self.servers[host] = FreeIPAServer(...): the constructor has returned
StoreServer ==
    /\ pc = "built"
    /\ servers' = Append(servers, srv)
    /\ idx' = idx + 1
    /\ pc' = "loop"
    /\ srv' = NoServer
    /\ asked' = Unasked
    /\ dir' = 1
    /\ k' = 0
    /\ outcome' = NoOutcome
    /\ UNCHANGED << hosts, faults, mismatched, connection_errors, exit_code,
                    table, attempts, exitvars, icvars,
                    decvars, loadvars >>

\* the loop over the hosts left after an except clause that aborts it
after_except_abort(i, n) == n + 1

\* the position of the loop over the hosts after its except clause, which
\* is inside the loop body: the loop goes on with the next host
after_except(i, n) == i + 1

\* except Exception: the constructor has raised
CatchFailure ==
    /\ pc = "raised"
    /\ connection_errors' = Append(connection_errors, srv.host)
    /\ idx' = after_except(idx, Len(hosts))
    /\ pc' = "loop"
    /\ srv' = NoServer
    /\ asked' = Unasked
    /\ dir' = 1
    /\ k' = 0
    /\ outcome' = NoOutcome
    /\ UNCHANGED << hosts, faults, mismatched, servers, exit_code, table, attempts,
                    exitvars, icvars,
                    decvars, loadvars >>

\* except clauses of main that all return 1
main_except_one(exc) == 1

\* the except clauses of main
main_except(exc) ==
    CASE exc = "KeyboardInterrupt" -> 130
      [] exc = "ConfigError" -> 78
      [] exc = "ValueError" -> 64
      [] OTHER -> 1

\* the start of Application.__init__: the arguments are parsed, the logger
\* is set up and the configuration is loaded and validated; without
\* configured hosts the servers are looked up in DNS.  An exception leaves
\* the constructor and main turns it into its exit code.
Configure ==
    /\ pc = "start"
    /\ \E how \in {"ok", "ConfigError", "KeyboardInterrupt", "Exception"},
          n \in 0..MaxHosts :
          LET dns_hosts == [i \in 1..n |-> HostName(i)]
              found == IF Len(hosts) = 0 THEN dns_hosts ELSE hosts
              exc == IF how # "ok" THEN how
                     ELSE IF Len(found) = 0 THEN "ValueError" ELSE ""
          IN /\ (Len(hosts) > 0 \/ how # "ok") => n = 0
             /\ init_exc' = exc
             /\ hosts' = IF exc = "" THEN found ELSE hosts
             /\ pc' = IF exc = "" THEN "loop" ELSE "exit"
             /\ exit_code' = IF exc = "" THEN exit_code ELSE main_except(exc)
    /\ UNCHANGED << idx, srv, k, dir, asked, faults, mismatched, servers,
                    connection_errors, table, attempts, outcome, run_exc, report,
                    icvars, decvars, loadvars >>

\* a keyboard interrupt while the servers are being connected: no except
\* clause of the constructor or of the loop catches it, it leaves
\* Application.__init__ and main returns its exit code.  The server under
\* construction and the Application with its servers and connection_errors
\* are dropped.
Interrupt ==
    /\ pc \in {"loop", "fqdn", "context", "collect", "built", "raised"}
    /\ init_exc' = "KeyboardInterrupt"
    /\ exit_code' = main_except("KeyboardInterrupt")
    /\ pc' = "exit"
    /\ srv' = NoServer
    /\ asked' = Unasked
    /\ outcome' = NoOutcome
    /\ dir' = 1
    /\ k' = 0
    /\ servers' = <<>>
    /\ connection_errors' = <<>>
    /\ UNCHANGED << hosts, idx, faults, mismatched, table, attempts, run_exc,
                    report, icvars, decvars, loadvars >>

\* the end of Application.__init__: the loop is over; with no server in
\* self.servers it raises ValueError, which main turns into its exit code,
\* otherwise the checker is created
FinishInit ==
    /\ pc = "loop"
    /\ idx > Len(hosts)
    /\ IF Len(servers) = 0
       THEN /\ pc' = "exit"
            /\ init_exc' = "ValueError"
            /\ exit_code' = main_except("ValueError")
       ELSE /\ pc' = "run"
            /\ init_exc' = init_exc
            /\ exit_code' = exit_code
    /\ UNCHANGED << hosts, idx, srv, k, dir, asked, faults, mismatched, servers,
                    connection_errors, table, attempts, outcome, run_exc, report,
                    icvars, decvars, loadvars >>

\* args.output_format: None for the table, or a structured format
OutputFormats == {"none", "json", "yaml"}

\* Application.run that returns 1 after it has rendered the results
run_returns_one(ended) ==
    CASE ended = "ok" -> 1
      [] ended = "KeyboardInterrupt" -> 130
      [] OTHER -> 1

\* what Application.run returns: 0 after rendering, 130 after a keyboard
\* interrupt, 1 after any other exception
run_returns(ended) ==
    CASE ended = "ok" -> 0
      [] ended = "KeyboardInterrupt" -> 130
      [] OTHER -> 1

\* how Application.run may end: it completes, or it is interrupted or
\* raises while it renders
RunEnds == {"ok", "KeyboardInterrupt", "Exception"}

\* Application.run: the results are rendered as a table or as structured
\* data, unless rendering raises, and main returns run's code.  print_table
\* and get_structured_data both take the state of a check, "OK" or "FAIL",
\* from is_consistent; the states are what is kept of either output.
Run ==
    /\ pc = "run"
    /\ \E states \in {table_states(servers)}, ended \in RunEnds :
          /\ IF ended = "ok"
             THEN \E format \in OutputFormats :
                     /\ table' = IF format = "none" THEN states ELSE table
                     /\ report' = IF format = "none" THEN report ELSE states
             ELSE UNCHANGED << table, report >>
          /\ run_exc' = IF ended = "ok" THEN "" ELSE ended
          /\ exit_code' = run_returns(ended)
    /\ pc' = "exit"
    /\ UNCHANGED << hosts, idx, srv, k, dir, asked, faults, mismatched, servers,
                    connection_errors, attempts, outcome, init_exc, icvars,
                    decvars, loadvars >>

(***************************************************************************)
(* A direct call of ConsistencyChecker.is_consistent.                      *)
(***************************************************************************)
\* the values a server attribute can hold
PyValues == {PyNone, PyInt(0), PyInt(1), PyStr("0"), PyStr("1"), PyBool(TRUE)}

\* lists of at most n elements of S
ListsOf(Elems, n) == UNION {[1..m -> Elems] : m \in 0..n}

\* the constructor run on a host with directory content p when nothing
\* fails, from the i-th line of the collection on
RECURSIVE CollectFrom(_, _, _)
CollectFrom(server, p, i) ==
    IF i > Len(CollectOrder) THEN server
    ELSE LET m == CollectOrder[i]
             o == Collector(m, server, NormalReplyOf(p, server.host, m))
         IN CollectFrom(Assign(server, m, o.val), p, i + 1)

Constructed(host, p) ==
    CollectFrom([NewServer(host) EXCEPT
                    !.conn = TRUE,
                    !.open = TRUE,
                    !.fqdn = host,
                    !.hostname_short = Replace(host, "." \o Domain, "")],
                p, 1)

\* a server of a host whose collection ended with these conflicts, ghosts
\* and health
ServerWith(host, conflicts, ghosts, healthy) ==
    [Constructed(host, 1) EXCEPT !.attr["conflicts"] = conflicts,
                                 !.attr["ghosts"] = ghosts,
                                 !.healthy_agreements = healthy]

\* the servers a checker may hold for a host: one that did not connect, and
\* collected ones
ServerKinds(host) ==
    {NewServer(host),
     ServerWith(host, PyInt(0), PyInt(0), TRUE),
     ServerWith(host, PyInt(0), PyInt(0), FALSE),
     ServerWith(host, PyInt(1), PyInt(0), TRUE),
     ServerWith(host, PyInt(0), PyInt(1), TRUE),
     [ServerWith(host, PyInt(0), PyInt(0), TRUE) EXCEPT
         !.attr["certs"] = PyList(<< "a", "b" >>)]}

\* the mappings of the first n hosts to a server each, in insertion order
RECURSIVE ServerLists(_)
ServerLists(n) ==
    IF n = 0 THEN {<<>>}
    ELSE {Append(l, s) : l \in ServerLists(n - 1), s \in ServerKinds(HostName(n))}

\* ConsistencyChecker(servers, args)
NewChecker ==
    /\ pc = "new"
    /\ LET c == checker_init(ic_servers)
       IN /\ pc' = IF c.raised THEN "refused" ELSE "call"
          /\ ic_exc' = c.exc
    /\ UNCHANGED << appvars, ic_servers, ic_check, ic_results, ic_ret, ic_data,
                    decvars, loadvars >>

\* is_consistent(check, check_results), called with any list of at most
\* MaxVals values on a checker of at most as many servers (the program hands
\* it one value per server)
CallIsConsistent ==
    /\ pc = "call"
    /\ Len(ic_servers) <= MaxVals
    /\ \E check \in Metrics, check_results \in ListsOf(PyValues, MaxVals) :
          /\ ic_check' = check
          /\ ic_results' = check_results
          /\ ic_ret' = is_consistent(ic_servers, check, check_results)
    /\ pc' = "returned"
    /\ UNCHANGED << appvars, ic_servers, ic_exc, ic_data, decvars, loadvars >>

CallGetStructuredData ==
    /\ pc = "call"
    /\ ic_data' = get_structured_data(ic_servers)
    /\ pc' = "reported"
    /\ UNCHANGED << appvars, ic_servers, ic_exc, ic_check, ic_results, ic_ret,
                    decvars, loadvars >>

(***************************************************************************)
(* A collector applied to the outcome of its search.                       *)
(***************************************************************************)
\* most values of the nscpentrywsi attribute of a tombstone entry
MaxGhostValues == 2
\* most entries returned by the search for replication agreements
MaxAgreements == 2

\* the outcomes of _search: False, a referral, or one of these lists
SearchOutcomes(lists) ==
    {Ret(SearchFalse), Raise("LDAPReferralError")}
    \cup {Ret(SearchList(entries)) : entries \in lists}

\* values of nsslapd-allow-anonymous-access
BindValues == {"on", "off", "rootdse", "ON", "Off", "RootDSE", "yes", ""}

BindInputs ==
    SearchOutcomes({<<>>, << Entry(NoAttrs) >>}
        \cup {<< Entry("nsslapd-allow-anonymous-access" :> << B(v) >>) >> :
                 v \in BindValues})

\* values of nscpentrywsi
GhostValues == {"replica ldap://server1", "replica foo-bar", "ldap gone",
                "replicafoo", "other"}

GhostInputs ==
    SearchOutcomes({<<>>, << Entry(NoAttrs) >>}
        \cup {<< Entry("nscpentrywsi" :> vals) >> :
                 vals \in ListsOf({B(v) : v \in GhostValues}, MaxGhostValues)}
        \cup {<< Entry("nscpentrywsi" :> << B("other") >>),
                 Entry("nscpentrywsi" :> << B("replica foo-bar") >>) >>})

\* values of nsds5replicaLastUpdateStatus
StatusTexts == {"Error (0) Replica acquired", "Error (18) busy",
                "Error (5) update failed"}

\* the entries found under the replica entry: agreements, and entries that
\* lack one of the two attributes read
AgreementEntries ==
    {Agreement("ipa9." \o Domain, st) : st \in StatusTexts}
    \cup {Entry(NoAttrs),
          Entry("nsDS5ReplicaHost" :> << B("ipa9." \o Domain) >>),
          Entry("nsds5replicaLastUpdateStatus" :> << B("Error (5) update failed") >>)}

ReplicaInputs == SearchOutcomes(ListsOf(AgreementEntries, MaxAgreements))

\* most entries returned by a search whose entries are counted
MaxEntries == 3

\* the metrics read from numSubordinates, and those that count entries
SubtreeMetrics == {"users", "susers", "pusers", "hgroups"}
EntryMetrics == {"hosts", "services", "ugroups", "ngroups", "hbac", "sudo",
                 "zones", "certs", "conflicts"}

\* values of numSubordinates
SubordinateTexts == {"0", "7", "007", "100", ""}

\* what search_s does for the search of a subtree metric
SubtreeReplies ==
    {Found(<<>>), Found(<< Entry(NoAttrs) >>),
     Found(<< Entry(NoAttrs) >> \o Subordinates("7"))}
    \cup {Found(Subordinates(t)) : t \in SubordinateTexts}
    \cup {Found(Subordinates(t) \o Subordinates("9")) : t \in SubordinateTexts}
    \cup {LdapError(f) : f \in LdapFaults}

\* what search_s does for the search of an entry-count metric
EntryReplies ==
    {Found(Entries(n)) : n \in 0..MaxEntries}
    \cup {LdapError(f) : f \in LdapFaults}

\* a server whose constructor has connected and validated the context
Connected(host) ==
    [NewServer(host) EXCEPT !.conn = TRUE, !.open = TRUE, !.fqdn = host]

\* the parts of a last-update status as the directory server writes it: an
\* optional "Error " prefix, a code, in parentheses or not, and the text
\* after it
StatusCodes == {"0", "18", "5", "-1", "180"}
StatusTails == {"", " ", " Replica acquired", " incremental update failed"}
StatusText(prefix, paren, code, tail) ==
    prefix \o (IF paren THEN "(" \o code \o ")" ELSE code) \o tail

StatusInputs ==
    {Ret(SearchList(<< Agreement("ipa9." \o Domain,
                                 StatusText(prefix, paren, code, tail)) >>)) :
        prefix \in {"", "Error "}, paren \in BOOLEAN,
        code \in StatusCodes, tail \in StatusTails}

NoResult == Raise("")

\* one of the counting collectors, applied by a connected server to what
\* search_s does
DecodeCount ==
    /\ pc = "decode"
    /\ d_fn \in SubtreeMetrics \cup EntryMetrics
    /\ d_out' = Collector(d_fn, Connected(HostName(1)), d_in)
    /\ pc' = "decoded"
    /\ UNCHANGED << appvars, icvars, d_fn, d_in, loadvars >>

\* _replication_agreements applied to one agreement with a given status
DecodeStatus ==
    /\ pc = "decode"
    /\ d_fn = "status"
    /\ d_out' = replication_agreements(d_in, Domain)
    /\ pc' = "decoded"
    /\ UNCHANGED << appvars, icvars, d_fn, d_in, loadvars >>

DecodeBind ==
    /\ pc = "decode"
    /\ d_fn = "bind"
    /\ d_out' = anon_bind(d_in)
    /\ pc' = "decoded"
    /\ UNCHANGED << appvars, icvars, d_fn, d_in, loadvars >>

DecodeGhosts ==
    /\ pc = "decode"
    /\ d_fn = "ghosts"
    /\ d_out' = ghost_replicas(d_in)
    /\ pc' = "decoded"
    /\ UNCHANGED << appvars, icvars, d_fn, d_in, loadvars >>

DecodeReplicas ==
    /\ pc = "decode"
    /\ d_fn = "replicas"
    /\ d_out' = replication_agreements(d_in, Domain)
    /\ pc' = "decoded"
    /\ UNCHANGED << appvars, icvars, d_fn, d_in, loadvars >>

(***************************************************************************)
(* Specifications.                                                         *)
(***************************************************************************)
\* no LoadingIndicator yet
NoLoader ==
    /\ debug = FALSE
    /\ loader = [running |-> FALSE, thread |-> "none"]
    /\ anim = [pc |-> "none", frames |-> 0, late |-> FALSE]
    /\ stopped = FALSE

\* a run of main is about to start; the hosts are those of the command line
\* or of the configuration file, possibly none
Init ==
    /\ pc = "start"
    /\ \E n \in 0..MaxHosts : hosts = [i \in 1..n |-> HostName(i)]
    /\ idx = 1
    /\ srv = NoServer
    /\ k = 0
    /\ dir = 1
    /\ asked = Unasked
    /\ faults = 0
    /\ mismatched = {}
    /\ servers = <<>>
    /\ connection_errors = <<>>
    /\ exit_code = -1
    /\ table = <<>>
    /\ attempts = <<>>
    /\ outcome = NoOutcome
    /\ init_exc = ""
    /\ run_exc = ""
    /\ report = <<>>
    /\ ic_servers = <<>>
    /\ ic_exc = ""
    /\ ic_check = ""
    /\ ic_results = <<>>
    /\ ic_ret = FALSE
    /\ ic_data = EmptyData
    /\ d_fn = ""
    /\ d_in = NoResult
    /\ d_out = NoResult
    /\ NoLoader

Next ==
    \/ Configure
    \/ Interrupt
    \/ Connect
    \/ ResolveFqdn
    \/ ValidateContext
    \/ Collect
    \/ StoreServer
    \/ CatchFailure
    \/ FinishInit
    \/ Run

Spec == Init /\ [][Next]_vars

\* the state of a run that has not started
Idle ==
    /\ hosts = <<>>
    /\ idx = 1
    /\ srv = NoServer
    /\ k = 0
    /\ dir = 1
    /\ asked = Unasked
    /\ faults = 0
    /\ mismatched = {}
    /\ servers = <<>>
    /\ connection_errors = <<>>
    /\ exit_code = -1
    /\ table = <<>>
    /\ attempts = <<>>
    /\ outcome = NoOutcome
    /\ init_exc = ""
    /\ run_exc = ""
    /\ report = <<>>

\* a ConsistencyChecker is about to be created over at most MaxServers
\* servers
InitCall ==
    /\ pc = "new"
    /\ \E n \in 0..MaxServers : ic_servers \in ServerLists(n)
    /\ ic_exc = ""
    /\ ic_check = ""
    /\ ic_results = <<>>
    /\ ic_ret = FALSE
    /\ ic_data = EmptyData
    /\ d_fn = ""
    /\ d_in = NoResult
    /\ d_out = NoResult
    /\ Idle
    /\ NoLoader

NextCall ==
    \/ NewChecker
    \/ CallIsConsistent
    \/ CallGetStructuredData

SpecCall == InitCall /\ [][NextCall]_vars

\* a collector is about to be applied to the outcome of its search
InitDecode ==
    /\ pc = "decode"
    /\ \/ d_fn = "bind" /\ d_in \in BindInputs
       \/ d_fn = "ghosts" /\ d_in \in GhostInputs
       \/ d_fn = "replicas" /\ d_in \in ReplicaInputs
       \/ d_fn \in SubtreeMetrics /\ d_in \in SubtreeReplies
       \/ d_fn \in EntryMetrics /\ d_in \in EntryReplies
       \/ d_fn = "status" /\ d_in \in StatusInputs
    /\ d_out = NoResult
    /\ ic_servers = <<>>
    /\ ic_exc = ""
    /\ ic_check = ""
    /\ ic_results = <<>>
    /\ ic_ret = FALSE
    /\ ic_data = EmptyData
    /\ Idle
    /\ NoLoader

NextDecode ==
    \/ DecodeBind
    \/ DecodeGhosts
    \/ DecodeReplicas
    \/ DecodeCount
    \/ DecodeStatus

SpecDecode == InitDecode /\ [][NextDecode]_vars

(***************************************************************************)
(* The loading indicator around the loop over the hosts: the main thread   *)
(* and the animation thread.                                               *)
(***************************************************************************)
\* most frames of the animation that are counted
MaxFrames == 3

Min(a, b) == IF a < b THEN a ELSE b

\* LoadingIndicator.start: the flag is set and the thread is started
loader_start(l) == [l EXCEPT !.running = TRUE, !.thread = "started"]

\* a stop that never waits for the thread
stop_next_nowait(l) == "l_clear"

\* LoadingIndicator.stop after it has cleared the flag: it joins the thread
\* if there is one, then clears the line
stop_next(l) == IF l.thread # "none" THEN "l_join" ELSE "l_clear"

\* the indicator is created, and started unless args.debug is set
LoaderStart ==
    /\ pc = "l_start"
    /\ IF debug
       THEN UNCHANGED << loader, anim >>
       ELSE /\ loader' = loader_start(loader)
            /\ anim' = [anim EXCEPT !.pc = "test"]
    /\ pc' = "l_loop"
    /\ UNCHANGED << appvars, icvars, decvars, debug, stopped >>

\* one turn of the loop over the hosts: the server is constructed, or the
\* constructor raises an exception that the loop catches, or a keyboard
\* interrupt leaves the loop
LoopBody ==
    /\ pc = "l_loop"
    /\ idx <= Len(hosts)
    /\ \E how \in {"ok", "Exception", "KeyboardInterrupt"} :
          IF how = "KeyboardInterrupt"
          THEN /\ init_exc' = how
               /\ pc' = "l_stop"
               /\ idx' = idx
          ELSE /\ init_exc' = init_exc
               /\ pc' = pc
               /\ idx' = idx + 1
    /\ UNCHANGED << hosts, srv, k, dir, asked, faults, mismatched, servers,
                    connection_errors, exit_code, table, attempts, outcome,
                    run_exc, report, icvars, decvars, loadvars >>

\* the loop is over and the finally clause is entered
LoopEnd ==
    /\ pc = "l_loop"
    /\ idx > Len(hosts)
    /\ pc' = "l_stop"
    /\ UNCHANGED << appvars, icvars, decvars, loadvars >>

\* finally: loader.stop() is called; it does nothing unless running is set
StopBegin ==
    /\ pc = "l_stop"
    /\ IF loader.running
       THEN /\ loader' = [loader EXCEPT !.running = FALSE]
            /\ pc' = stop_next(loader)
            /\ stopped' = stopped
       ELSE /\ loader' = loader
            /\ pc' = "l_after"
            /\ stopped' = TRUE
    /\ UNCHANGED << appvars, icvars, decvars, debug, anim >>

\* self.thread.join() returns once the animation thread has ended
StopJoin ==
    /\ pc = "l_join"
    /\ anim.pc = "done"
    /\ pc' = "l_clear"
    /\ UNCHANGED << appvars, icvars, decvars, loadvars >>

\* stop clears the line and returns
StopClear ==
    /\ pc = "l_clear"
    /\ stopped' = TRUE
    /\ pc' = "l_after"
    /\ UNCHANGED << appvars, icvars, decvars, debug, loader, anim >>

\* after the finally clause: the interrupt goes on to main, or the
\* constructor raises ValueError for want of servers, or it returns
InitContinue ==
    /\ pc = "l_after"
    /\ \E no_servers \in BOOLEAN :
          /\ init_exc # "" => ~no_servers
          /\ init_exc' = IF no_servers THEN "ValueError" ELSE init_exc
          /\ pc' = IF init_exc # "" \/ no_servers THEN "l_raised" ELSE "l_returned"
    /\ UNCHANGED << hosts, idx, srv, k, dir, asked, faults, mismatched, servers,
                    connection_errors, exit_code, table, attempts, outcome,
                    run_exc, report, icvars, decvars, loadvars >>

\* _animate: "while self.running"
AnimateTest ==
    /\ anim.pc = "test"
    /\ anim' = [anim EXCEPT !.pc = IF loader.running THEN "write" ELSE "done"]
    /\ UNCHANGED << pc, appvars, icvars, decvars, debug, loader, stopped >>

\* _animate: a frame is written to the terminal
AnimateWrite ==
    /\ anim.pc = "write"
    /\ anim' = [anim EXCEPT !.pc = "sleep",
                            !.frames = Min(@ + 1, MaxFrames),
                            !.late = @ \/ stopped]
    /\ UNCHANGED << pc, appvars, icvars, decvars, debug, loader, stopped >>

\* _animate: time.sleep(self.delay) returns
AnimateSleep ==
    /\ anim.pc = "sleep"
    /\ anim' = [anim EXCEPT !.pc = "test"]
    /\ UNCHANGED << pc, appvars, icvars, decvars, debug, loader, stopped >>

\* Application.__init__ is about to create the loading indicator
InitLoader ==
    /\ pc = "l_start"
    /\ \E n \in 1..MaxHosts : hosts = [i \in 1..n |-> HostName(i)]
    /\ idx = 1
    /\ srv = NoServer
    /\ k = 0
    /\ dir = 1
    /\ asked = Unasked
    /\ faults = 0
    /\ mismatched = {}
    /\ servers = <<>>
    /\ connection_errors = <<>>
    /\ exit_code = -1
    /\ table = <<>>
    /\ attempts = <<>>
    /\ outcome = NoOutcome
    /\ init_exc = ""
    /\ run_exc = ""
    /\ report = <<>>
    /\ ic_servers = <<>>
    /\ ic_exc = ""
    /\ ic_check = ""
    /\ ic_results = <<>>
    /\ ic_ret = FALSE
    /\ ic_data = EmptyData
    /\ d_fn = ""
    /\ d_in = NoResult
    /\ d_out = NoResult
    /\ debug \in BOOLEAN
    /\ loader = [running |-> FALSE, thread |-> "none"]
    /\ anim = [pc |-> "none", frames |-> 0, late |-> FALSE]
    /\ stopped = FALSE

NextLoader ==
    \/ LoaderStart
    \/ LoopBody
    \/ LoopEnd
    \/ StopBegin
    \/ StopJoin
    \/ StopClear
    \/ InitContinue
    \/ AnimateTest
    \/ AnimateWrite
    \/ AnimateSleep

SpecLoader == InitLoader /\ [][NextLoader]_vars

(***************************************************************************)
(* Properties of is_consistent, checked under SpecCall.                    *)
(***************************************************************************)
SpecialChecks == {"conflicts", "ghosts", "replicas"}

AllEqual(lst) == \A i, j \in 1..Len(lst) : PyEq(lst[i], lst[j])
NoneIsNone(lst) == \A i \in 1..Len(lst) : ~IsNone(lst[i])
AllZero(lst) == \A i \in 1..Len(lst) : PyEq(lst[i], PyInt(0))

\* C1: for every metric key other than conflicts, ghosts and replicas,
\* is_consistent returns true if and only if the list of values is not
\* empty, all of its elements are equal and none of them is None.
C1_DefaultRule ==
    (pc = "returned" /\ ic_check \notin SpecialChecks) =>
        (ic_ret <=> (/\ Len(ic_results) > 0
                     /\ AllEqual(ic_results)
                     /\ NoneIsNone(ic_results)))

\* C1 (witness): a call for users with two equal values that are not None
\* has returned true.
C1_Witness ==
    /\ pc = "returned"
    /\ ic_check = "users"
    /\ Len(ic_results) = 2
    /\ ic_results[1] = PyStr("1")
    /\ ic_ret

\* C2: for conflicts and for ghosts, and any list of values that is not
\* empty, is_consistent returns true if and only if every element of the
\* list passed to it equals 0.
C2_ZeroRuleOfValues ==
    (pc = "returned" /\ ic_check \in {"conflicts", "ghosts"} /\ Len(ic_results) > 0) =>
        (ic_ret <=> AllZero(ic_results))

\* C3: for replicas, and any list of values that is not empty, is_consistent
\* returns true if and only if healthy_agreements of every server of the
\* checker is true, whatever the status texts passed.
C3_ReplicasByHealth ==
    (pc = "returned" /\ ic_check = "replicas" /\ Len(ic_results) > 0) =>
        (ic_ret <=> \A i \in 1..Len(ic_servers) : ic_servers[i].healthy_agreements)

\* C3 (witness): a call for replicas with two different status texts and two
\* healthy servers has returned true.
C3_Witness ==
    /\ pc = "returned"
    /\ ic_check = "replicas"
    /\ ic_results = << PyStr("0"), PyStr("1") >>
    /\ Len(ic_servers) = 2
    /\ ic_ret

\* C4: for every metric key and whatever the servers of the checker hold,
\* is_consistent of an empty list returns false.
C4_EmptyNeverConsistent ==
    (pc = "returned" /\ Len(ic_results) = 0) => ~ic_ret

\* C4 (witness): a call for conflicts with an empty list has returned, on a
\* checker whose servers all hold 0 conflicts.
C4_Witness ==
    /\ pc = "returned"
    /\ ic_check = "conflicts"
    /\ Len(ic_results) = 0
    /\ \A i \in 1..Len(ic_servers) : ic_servers[i].attr["conflicts"] = PyInt(0)

(***************************************************************************)
(* Properties of the construction of a FreeIPAServer, checked under Spec.  *)
(***************************************************************************)
\* the constructor has returned after it started the collection
Collected == pc = "built" /\ k >= 1

\* a query that failed: it was answered with a referral or raised
Failed(q) == asked[q] \in {"referral", "error"}

\* the answer of the directory to the query of metric m when nothing fails
NormalReply(m) == NormalReplyOf(dir, srv.host, m)

\* the value of metric m decoded from that answer
NormalValue(m) ==
    LET val == Collector(m, srv, NormalReply(m)).val
    IN IF m = "replicas" THEN val.text ELSE val

\* the documented default of metric m
DefaultValue(m) ==
    CASE m \in {"users", "susers", "pusers", "hgroups"} -> PyStr("0")
      [] m = "bind" -> PyStr("ERROR")
      [] m = "msdcs" -> PyBool(FALSE)
      [] m = "replicas" -> PyStr("No replication agreements found")
      [] OTHER -> PyInt(0)

\* the value of a metric whose own query did not fail
ExpectedValue(m) == IF asked[m] = "ok" THEN NormalValue(m) ELSE DefaultValue(m)

\* C5: when the collection of a metric fails, every other metric of the
\* server still ends with the value it would have had: none is left
\* uncollected.
C5_FailureIsolated ==
    Collected =>
        \A q \in Metrics : Failed(q) =>
            \A m \in Metrics \ {q} :
                /\ asked[m] # "unasked"
                /\ (~Failed(m) => srv.attr[m] = ExpectedValue(m))

\* C6: when the collection of a metric fails for any reason, the stored
\* value of the metric is its documented default, never None.
C6_DefaultOnFailure ==
    Collected =>
        \A m \in Metrics : asked[m] \notin {"unasked", "ok"} =>
            /\ srv.attr[m] = DefaultValue(m)
            /\ (m = "replicas" => ~srv.healthy_agreements)

C8_UnavailableAfterConnectFailure ==
    (pc = "built" /\ ~srv.conn) => \A m \in Metrics : srv.attr[m] = PyNone

(***************************************************************************)
(* Properties of Application.__init__ and main, checked under Spec.        *)
(***************************************************************************)
ServerHosts == {servers[i].host : i \in 1..Len(servers)}
ErrorHosts == {connection_errors[i] : i \in 1..Len(connection_errors)}

\* C9: a naming-context mismatch makes the constructor raise, the host is
\* recorded as failed and its server is not handed to the evaluator.
C9_MismatchIsPerServerError ==
    \A h \in mismatched :
        /\ ~(pc = "built" /\ srv.host = h)
        /\ h \notin ServerHosts
        /\ (srv.host # h => h \in ErrorHosts)

\* the host failed to connect: the constructor raised, or ended without a
\* connection
ConnectFailed(h) ==
    \/ h \in ErrorHosts
    \/ \E i \in 1..Len(servers) : servers[i].host = h /\ ~servers[i].conn

\* C10: if every configured server fails to connect, the initialisation
\* raises, nothing is rendered and the exit code is not 0.
C10_AllFailedIsFatal ==
    (idx > Len(hosts) /\ \A i \in 1..Len(hosts) : ConnectFailed(hosts[i])) =>
        /\ pc # "run"
        /\ table = <<>>
        /\ exit_code # 0

\* C11: after the loop over the hosts, every host whose connection attempt
\* failed is in connection_errors, whether the server was unreachable, the
\* credentials were rejected or the constructor raised.
C11_FailedConnectRecorded ==
    idx > Len(hosts) =>
        \A i \in 1..Len(servers) :
            ~servers[i].conn => servers[i].host \in ErrorHosts

\* C12: every configured host gets exactly one construction attempt, in the
\* configured order and without retries, and a failure for one host does
\* not prevent the attempts for the hosts after it.
C12_OneAttemptEach ==
    /\ Len(attempts) <= Len(hosts)
    /\ attempts = SubSeq(hosts, 1, Len(attempts))
    /\ (idx > Len(hosts) => attempts = hosts)

\* C12 (witness): the loop over two hosts is over, the constructor raised
\* for the first one, and both were attempted.
C12_Witness ==
    /\ idx > Len(hosts)
    /\ Len(hosts) = 2
    /\ connection_errors = << hosts[1] >>
    /\ attempts = hosts

(***************************************************************************)
(* Properties of the resources and queries of a FreeIPAServer, checked     *)
(* under Spec.                                                             *)
(***************************************************************************)
\* C15: the connection a FreeIPAServer opened is closed by the time its
\* collection finishes, on the success path and on every failure path.
C15_ConnectionReleased ==
    /\ (pc = "built" => ~srv.open)
    /\ \A i \in 1..Len(servers) : ~servers[i].open

\* C16: every directory query answered with a referral, the FQDN and the
\* naming-context queries included, makes _search raise LDAPReferralError,
\* and every query answered with not-found or server-down makes it return
\* False.
C16_ReferralIsRedirected ==
    \A q \in QueryNames \ {"msdcs"} :
        /\ (asked[q] = "referral" => outcome[q] = "LDAPReferralError")
        /\ (asked[q] = "notfound" => outcome[q] = "False")

\* C20: the AD-trust indicator is true if and only if the DNS lookup
\* succeeded and the resolved FQDN of the server appears in a returned
\* record; after a DNS failure it is false, no exception leaves _ms_adtrust
\* and the collection goes on with replicas, which is unaffected.
C20_AdtrustNeverRaises ==
    asked["msdcs"] # "unasked" =>
        /\ srv.attr["msdcs"] =
              PyBool(/\ asked["msdcs"] = "ok"
                     /\ \E i \in 1..Len(DnsRecords(dir, srv.host)) :
                           Contains(DnsRecords(dir, srv.host)[i], srv.fqdn))
        /\ \/ pc = "collect" /\ CollectOrder[k] = "replicas"
           \/ pc = "built" /\ asked["replicas"] # "unasked"
        /\ (pc = "built" /\ asked["replicas"] = "ok") =>
              srv.attr["replicas"] = NormalValue("replicas")

\* C20 (witness): the constructor has returned after a failed DNS lookup,
\* with the indicator false and the replication status collected.
C20_Witness ==
    /\ pc = "built"
    /\ asked["msdcs"] = "dnsfail"
    /\ srv.attr["msdcs"] = PyBool(FALSE)
    /\ asked["replicas"] = "ok"
    /\ srv.healthy_agreements

(***************************************************************************)
(* Properties of ConsistencyChecker's constructor and of                   *)
(* get_structured_data, checked under SpecCall.                            *)
(***************************************************************************)
\* C13: ConsistencyChecker over an empty mapping of servers raises
\* ValueError, so that no verdict and no summary comes from an empty set of
\* servers.
C13_EmptyRefused ==
    /\ (pc # "new" /\ Len(ic_servers) = 0) =>
          (pc = "refused" /\ ic_exc = "ValueError")
    /\ (pc \in {"call", "returned", "reported"} => Len(ic_servers) > 0)

\* C13 (witness): the constructor has refused an empty mapping.
C13_Witness ==
    /\ pc = "refused"
    /\ Len(ic_servers) = 0
    /\ ic_exc = "ValueError"

\* the conflicts counts of the servers are 1, 0, 0
OneConflictOfThree ==
    /\ Len(ic_servers) = 3
    /\ ic_servers[1].attr["conflicts"] = PyInt(1)
    /\ ic_servers[2].attr["conflicts"] = PyInt(0)
    /\ ic_servers[3].attr["conflicts"] = PyInt(0)

\* the entry of a check in the checks list of the structured data
CheckEntry(data, name) ==
    data.checks[CHOOSE i \in 1..Len(data.checks) : data.checks[i].name = name]

\* C14: the checks list of get_structured_data has one entry per metric key
\* in the order of the enumeration, total_checks is the number of keys (17),
\* consistent_checks is the number of entries that are consistent, the two
\* counters add up to total_checks, and with three servers whose conflicts
\* counts are 1, 0, 0 the conflicts entry is inconsistent and counted.
C14_SummaryCounts ==
    pc = "reported" =>
        LET checks == ic_data.checks
            summary == ic_data.summary
        IN /\ Len(checks) = Len(Checks)
           /\ \A i \in 1..Len(checks) : checks[i].name = Checks[i]
           /\ summary.total_checks = 17
           /\ summary.total_checks = Len(Checks)
           /\ summary.consistent_checks =
                 Cardinality({i \in 1..Len(checks) : checks[i].is_consistent})
           /\ summary.consistent_checks + summary.inconsistent_checks
                 = summary.total_checks
           /\ OneConflictOfThree =>
                 /\ ~CheckEntry(ic_data, "conflicts").is_consistent
                 /\ summary.inconsistent_checks >= 1

\* C14 (witness): the structured data of three servers whose conflicts
\* counts are 1, 0, 0 has been produced, with conflicts the only failure of
\* the zero rule.
C14_Witness ==
    /\ pc = "reported"
    /\ OneConflictOfThree
    /\ CheckEntry(ic_data, "conflicts").state = "FAIL"
    /\ CheckEntry(ic_data, "ghosts").state = "OK"

(***************************************************************************)
(* Properties of the collectors, checked under SpecDecode.  A search that  *)
(* fails is one for which _search returns False.                           *)
(***************************************************************************)
\* the entries a search returned, none when it returned False
EntriesOf(o) == IF o.val.is_list THEN o.val.entries ELSE <<>>

\* the text of the first value of an attribute of an entry
FirstText(entry, name) == entry.attrs[name][1].s

AnonBindAttr == "nsslapd-allow-anonymous-access"

\* C17: the anonymous-bind metric is ON, OFF or ROOTDSE whenever the
\* attribute value in uppercase is one of the three, whatever its letter
\* case, and ERROR for any other value, an absent attribute and an empty or
\* failed search.
C17_BindNormalised ==
    (pc = "decoded" /\ d_fn = "bind" /\ ~d_in.raised) =>
        LET entries == EntriesOf(d_in)
        IN d_out =
             Ret(PyStr(
               IF /\ Len(entries) > 0
                  /\ AnonBindAttr \in DOMAIN entries[1].attrs
                  /\ Upper(FirstText(entries[1], AnonBindAttr))
                        \in {"ON", "OFF", "ROOTDSE"}
               THEN Upper(FirstText(entries[1], AnonBindAttr))
               ELSE "ERROR"))

StatusAttr == "nsds5replicaLastUpdateStatus"

\* C18: the replication health is true if and only if at least one entry
\* was found and every entry found has a normalised last-update status of
\* "0" or "18"; a search that finds no entry or fails gives the pair
\* ("No replication agreements found", false).
C18_HealthOfAgreements ==
    (pc = "decoded" /\ d_fn = "replicas" /\ ~d_in.raised) =>
        LET entries == EntriesOf(d_in)
        IN /\ d_out.val.healthy <=>
                 /\ Len(entries) > 0
                 /\ \A i \in 1..Len(entries) :
                       /\ StatusAttr \in DOMAIN entries[i].attrs
                       /\ normalise_status(FirstText(entries[i], StatusAttr))
                             \in {"0", "18"}
           /\ Len(entries) = 0 =>
                 d_out = Ret([text |-> PyStr("No replication agreements found"),
                              healthy |-> FALSE])

GhostAttr == "nscpentrywsi"

\* C19: the ghost-replica count is the number of values of nscpentrywsi of
\* the first entry returned that contain "replica " and do not contain
\* "ldap"; it is 0 when no entry is returned, the search fails or the
\* attribute is absent.
C19_GhostCount ==
    (pc = "decoded" /\ d_fn = "ghosts" /\ ~d_in.raised) =>
        LET entries == EntriesOf(d_in)
        IN d_out =
             Ret(PyInt(
               IF Len(entries) > 0 /\ GhostAttr \in DOMAIN entries[1].attrs
               THEN LET vals == entries[1].attrs[GhostAttr]
                    IN Cardinality({i \in 1..Len(vals) :
                                       /\ Contains(vals[i].s, "replica ")
                                       /\ ~Contains(vals[i].s, "ldap")})
               ELSE 0))

\* C19 (witness): of the values "replica ldap://server1" and
\* "replica foo-bar" one ghost has been counted.
C19_Witness ==
    /\ pc = "decoded"
    /\ d_fn = "ghosts"
    /\ d_in = Ret(SearchList(<< Entry(GhostAttr :>
                    << B("replica ldap://server1"), B("replica foo-bar") >>) >>))
    /\ d_out = Ret(PyInt(1))


(***************************************************************************)
(* Properties of the counting collectors, checked under SpecDecode.        *)
(***************************************************************************)
SubordinatesAttr == "numSubordinates"

\* the search of a counting collector found nothing, or search_s raised
\* NO_SUCH_OBJECT or SERVER_DOWN
NothingFound(reply) ==
    \/ reply.kind \in {"NO_SUCH_OBJECT", "SERVER_DOWN"}
    \/ reply.kind = "results" /\ Len(reply.entries) = 0

\* C21: users, susers, pusers and hgroups are the numSubordinates attribute
\* of the first entry returned, as text and unchanged, never a number; they
\* are the text "0" when the attribute is absent, when no entry is returned
\* and when the search fails with not-found or server-down.
C21_SubordinatesAsText ==
    (pc = "decoded" /\ d_fn \in SubtreeMetrics) =>
        /\ NothingFound(d_in) => d_out = Ret(PyStr("0"))
        /\ (d_in.kind = "results" /\ Len(d_in.entries) > 0) =>
              LET first == d_in.entries[1]
              IN d_out = Ret(PyStr(IF SubordinatesAttr \in DOMAIN first.attrs
                                   THEN FirstText(first, SubordinatesAttr)
                                   ELSE "0"))
        /\ ~d_out.raised => d_out.val.t = "str"

C21_Witness ==
    /\ pc = "decoded"
    /\ d_fn = "susers"
    /\ d_in = Found(Subordinates("007") \o Subordinates("9"))
    /\ d_out = Ret(PyStr("007"))

\* C22: hosts, services, ugroups, ngroups, hbac, sudo, zones, certs and
\* conflicts are the number of entries their search returns, and the integer
\* 0 when it returns no entry or fails with not-found or server-down.
C22_EntriesCounted ==
    (pc = "decoded" /\ d_fn \in EntryMetrics) =>
        /\ NothingFound(d_in) => d_out = Ret(PyInt(0))
        /\ d_in.kind = "results" => d_out = Ret(PyInt(Len(d_in.entries)))

C22_Witness ==
    /\ pc = "decoded"
    /\ d_fn = "certs"
    /\ d_in = Found(Entries(MaxEntries))
    /\ d_out = Ret(PyInt(MaxEntries))

(***************************************************************************)
(* Properties of the status of an agreement, checked under SpecDecode.     *)
(***************************************************************************)
\* the text up to the first space or parenthesis
RECURSIVE UpToDelimiter(_)
UpToDelimiter(text) ==
    IF Len(text) = 0 \/ SubSeq(text, 1, 1) \in {" ", "(", ")"} THEN ""
    ELSE SubSeq(text, 1, 1) \o UpToDelimiter(SubSeq(text, 2, Len(text)))

\* the leading token of a status: the "Error " prefix and the parenthesis
\* that opens the code are passed over, the token ends before the first
\* space or parenthesis
LeadingToken(text) ==
    LET bare == IF Len(text) >= 6 /\ SubSeq(text, 1, 6) = "Error "
                THEN SubSeq(text, 7, Len(text)) ELSE text
        code == IF Len(bare) > 0 /\ SubSeq(bare, 1, 1) = "("
                THEN SubSeq(bare, 2, Len(bare)) ELSE bare
    IN UpToDelimiter(code)

\* C27: the normalised status code of an agreement is the leading token of
\* its last-update status after the "Error " prefix, ending before the first
\* space or parenthesis, and the agreement is healthy exactly when that code
\* is "0" or "18".
C27_LeadingTokenIsCode ==
    (pc = "decoded" /\ d_fn = "status") =>
        LET token == LeadingToken(FirstText(EntriesOf(d_in)[1], StatusAttr))
        IN d_out = Ret([text |-> PyStr("ipa9 " \o token),
                        healthy |-> token \in {"0", "18"}])

C27_Witness ==
    /\ pc = "decoded"
    /\ d_fn = "status"
    /\ FirstText(EntriesOf(d_in)[1], StatusAttr)
          = "Error (5) incremental update failed"
    /\ d_out = Ret([text |-> PyStr("ipa9 5"), healthy |-> FALSE])

\* C29: _replication_agreements never returns the text "No replication
\* agreements found" together with healthy = true, whatever the search
\* returns.
C29_SentinelIsUnhealthy ==
    (pc = "decoded" /\ d_fn = "replicas" /\ ~d_out.raised) =>
        (d_out.val.text = PyStr("No replication agreements found")
            => ~d_out.val.healthy)


(***************************************************************************)
(* Properties of get_structured_data, checked under SpecCall.              *)
(***************************************************************************)
Primitive(value) == value.t \in {"str", "int", "float", "bool", "none"}

\* C23: for every check of the structured data the values map has exactly
\* one entry per server, keyed by the host of the server; the entry is the
\* value of the server when that is a string, integer, float, boolean or
\* None and its string form otherwise; the state is "OK" exactly when
\* is_consistent is true and "FAIL" otherwise.
C23_ValuesPerServer ==
    pc = "reported" =>
        \A i \in 1..Len(Checks) :
            LET check == ic_data.checks[i]
            IN /\ check.name = Checks[i]
               /\ DOMAIN check.values =
                     {ic_servers[j].host : j \in 1..Len(ic_servers)}
               /\ Cardinality(DOMAIN check.values) = Len(ic_servers)
               /\ \A j \in 1..Len(ic_servers) :
                     LET value == ic_servers[j].attr[Checks[i]]
                     IN check.values[ic_servers[j].host] =
                           IF Primitive(value) THEN value
                           ELSE PyStr("['a', 'b']")
               /\ check.state \in {"OK", "FAIL"}
               /\ check.state = "OK" <=> check.is_consistent

C23_Witness ==
    /\ pc = "reported"
    /\ Len(ic_servers) >= 2
    /\ \E j \in 1..Len(ic_servers) :
          /\ ic_servers[j].attr["certs"] = PyList(<< "a", "b" >>)
          /\ ic_data.checks[12].values[ic_servers[j].host] = PyStr("['a', 'b']")
    /\ \E i \in 1..Len(Checks) : ic_data.checks[i].state = "OK"
    /\ \E i \in 1..Len(Checks) : ic_data.checks[i].state = "FAIL"


(***************************************************************************)
(* Properties of the exit code, checked under Spec.                        *)
(***************************************************************************)
\* run has rendered the verdicts, as a table or as structured data
Rendered == table # <<>> \/ report # <<>>

\* C24: main returns exactly one exit code: 0 when the run completes, 130
\* after a keyboard interrupt during initialisation or during run, 78 when
\* initialisation raises ConfigError, 64 when it raises ValueError, and 1
\* for any other exception of initialisation or of rendering; there is no
\* exit code before main returns.
C24_ExitCodes ==
    /\ pc # "exit" => exit_code = -1
    /\ pc = "exit" =>
          /\ ~(init_exc # "" /\ run_exc # "")
          /\ exit_code =
                CASE init_exc = "KeyboardInterrupt" \/ run_exc = "KeyboardInterrupt" -> 130
                  [] init_exc = "ConfigError" -> 78
                  [] init_exc = "ValueError" -> 64
                  [] init_exc = "Exception" \/ run_exc = "Exception" -> 1
                  [] OTHER -> 0

C24_Witness ==
    /\ pc = "exit"
    /\ init_exc = "KeyboardInterrupt"
    /\ idx = 2
    /\ Len(attempts) = 2
    /\ exit_code = 130

MetricAsked == \E m \in Metrics : asked[m] # "unasked"

\* the naming context the directory of the current server holds
DirectoryContext ==
    FirstText(Directory(dir, srv.host)["context"][1], "nsslapd-defaultnamingcontext")

C28_FailedServerFailsAll ==
    (pc = "exit" /\ \E i \in 1..Len(servers) : servers[i].attr = InitialAttrs) =>
        /\ table # <<>> => \A i \in 1..Len(Checks) : table[i] = "FAIL"
        /\ report # <<>> =>
              \A i \in 1..Len(Checks) : report[i] = "FAIL"


(***************************************************************************)
(* Properties of the loading indicator, checked under SpecLoader.          *)
(***************************************************************************)
\* C30: the loading indicator is stopped on every way out of the loop over
\* the hosts before Application.__init__ returns or raises; once stop has
\* returned the animation thread has ended and writes nothing more; stop
\* without start (debug mode) does nothing and waits for nothing.
C30_IndicatorStopped ==
    /\ pc \in {"l_returned", "l_raised"} => (stopped /\ ~loader.running)
    /\ stopped =>
          /\ anim.pc \in {"none", "done"}
          /\ ~anim.late
    /\ debug =>
          /\ loader = [running |-> FALSE, thread |-> "none"]
          /\ anim = [pc |-> "none", frames |-> 0, late |-> FALSE]
          /\ pc \notin {"l_join", "l_clear"}

C30_Witness ==
    /\ pc = "l_raised"
    /\ init_exc = "KeyboardInterrupt"
    /\ ~debug
    /\ stopped
    /\ anim.pc = "done"
    /\ anim.frames >= 2

====
